---- MODULE Spec2Model ----
(***************************************************************************)
(* The configuration governance engine of MultiAgentDev: the Postgres      *)
(* schema (tables, row level security policies, SECURITY DEFINER helpers,  *)
(* the audit trigger) after the migrations have run in order, ending with  *)
(* the consolidated policy fix of 20260128_sub_agents.sql, and the         *)
(* browser-side AuthProvider that caches the caller's profile.             *)
(*                                                                         *)
(* A request is a statement run with auth.uid() = uid.  Each statement is  *)
(* one transaction: a pure operator computes its outcome (result and new   *)
(* tables) and the action of the same name applies it.                     *)
(*                                                                         *)
(* Modelling choices: temperatures are tenths (7 is 0.7); text is a        *)
(* sequence of character codes; SQL NULL is NULL for text/uuid columns and *)
(* NullInt for integer/timestamp columns; the columns icon, settings,      *)
(* welcome_message, capabilities, category and the timestamps carry no     *)
(* logic in the policies or in the audit trigger and are left out.         *)
(***************************************************************************)
EXTENDS Integers, Sequences, FiniteSets, TLC

VARIABLES profiles, agents, sub_agents, agent_config_history,
          knowledge_base,
          authUser, authProfile, steps,
          clock,        \* the database server's time
          inflight,     \* per session: the transaction it has begun, if any
          viewAgents,   \* useAgentsRealtime: the hook's agents array
          activeOnly,   \* useAgentsRealtime: its activeOnly option
          channel,      \* useAgentsRealtime: state of its realtime channel
          queue,        \* change events on their way to the hook
          resynced,     \* history: no rejoin of the channel still lacks a list call
          isLoading,    \* the hook's isLoading: a list call has not answered yet
          error,        \* the hook's error: the message of a failed list call
          logged        \* useAgentsRealtime: the payload its handler logged last

vars == <<profiles, agents, sub_agents, agent_config_history,
          knowledge_base,
          authUser, authProfile, steps,
          clock, inflight, viewAgents, activeOnly, channel, queue, resynced,
          isLoading, error, logged>>

hookvars == <<viewAgents, activeOnly, channel, queue, resynced, isLoading,
              error, logged>>

dbvars == <<profiles, agents, sub_agents, agent_config_history,
            knowledge_base>>

(***************************************************************************)
(* Bounds and value universes                                              *)
(***************************************************************************)
MaxSteps == 2

NULL == "NULL"
NullInt == -1

Users == {"u1", "u2", "u3"}
Orgs == {"T1", "T2"}
AgentIds == {"a1", "a2"}
SubAgentIds == {"s1"}
Times == {1, 2}

PreviewLen == 100
TempMin == 0
TempMax == 20
MaxTokensMax == 128000
DefaultVersion == 1
DefaultTemperature == 7
DefaultMaxTokens == 2048

\* Three instruction texts: a short one and two long ones that differ only
\* after the first PreviewLen characters.
PromptShort == <<1>>
PromptLongA == [i \in 1..(PreviewLen + 1) |-> IF i = PreviewLen + 1 THEN 1 ELSE 0]
PromptLongB == [i \in 1..(PreviewLen + 1) |-> IF i = PreviewLen + 1 THEN 2 ELSE 0]

(***************************************************************************)
(* SQL helpers                                                             *)
(***************************************************************************)
\* a = b in a WHERE / USING clause: true only when neither side is NULL.
SqlEq(a, b) == a # NULL /\ b # NULL /\ a = b

\* a IS DISTINCT FROM b: NULL is compared like a value.
IsDistinctFrom(a, b) == a # b

\* COALESCE(v, d) on an integer column.
Coalesce(v, d) == IF v = NullInt THEN d ELSE v

\* LEFT(s, n)
Left(s, n) == SubSeq(s, 1, IF Len(s) < n THEN Len(s) ELSE n)

NoProfile == [id |-> NULL, organization_id |-> NULL, role |-> NULL,
              deleted_at |-> NullInt]

\* SELECT ... FROM profiles WHERE id = uid, run by a SECURITY DEFINER helper.
ProfileRow(uid) == IF uid \in DOMAIN profiles THEN profiles[uid] ELSE NoProfile

(***************************************************************************)
(* SECURITY DEFINER helper functions                                       *)
(***************************************************************************)
get_my_org(uid) == ProfileRow(uid).organization_id

am_i_admin_NoRole(uid) ==
    /\ uid \in DOMAIN profiles
    /\ profiles[uid].deleted_at = NullInt

am_i_admin(uid) ==
    /\ uid \in DOMAIN profiles
    /\ profiles[uid].role = "admin"
    /\ profiles[uid].deleted_at = NullInt

am_i_active(uid) ==
    /\ uid \in DOMAIN profiles
    /\ profiles[uid].deleted_at = NullInt

is_org_admin(uid, org_id) ==
    /\ uid \in DOMAIN profiles
    /\ SqlEq(profiles[uid].organization_id, org_id)
    /\ profiles[uid].role = "admin"

is_user_active(user_id) ==
    /\ user_id \in DOMAIN profiles
    /\ profiles[user_id].deleted_at = NullInt

(***************************************************************************)
(* Row level security policies                                             *)
(***************************************************************************)
profiles_select_own(uid, row) == SqlEq(uid, row.id)

profiles_update_own(uid, row) == SqlEq(uid, row.id)

agents_select_Any(uid, row) == uid \in DOMAIN profiles

agents_select(uid, row) == SqlEq(row.organization_id, get_my_org(uid))

agents_insert_admin(uid, row) ==
    SqlEq(row.organization_id, get_my_org(uid)) /\ am_i_admin(uid)

agents_update_admin(uid, row) ==
    SqlEq(row.organization_id, get_my_org(uid)) /\ am_i_admin(uid)

agents_delete_admin(uid, row) ==
    SqlEq(row.organization_id, get_my_org(uid)) /\ am_i_admin(uid)

\* organization_id IN (SELECT organization_id FROM profiles WHERE id = auth.uid());
\* the subquery runs under profiles_select_own, which shows the caller its own row.
sub_agents_select_org(uid, row) ==
    \E p \in DOMAIN profiles :
        /\ SqlEq(p, uid)
        /\ profiles_select_own(uid, profiles[p])
        /\ SqlEq(row.organization_id, profiles[p].organization_id)

sub_agents_insert_admin(uid, row) == is_org_admin(uid, row.organization_id)

sub_agents_update_admin(uid, row) == is_org_admin(uid, row.organization_id)

sub_agents_delete_admin(uid, row) == is_org_admin(uid, row.organization_id)

\* EXISTS (SELECT 1 FROM agents WHERE agents.id = agent_id
\*         AND agents.organization_id = get_my_org()); agents is read under
\* agents_select.
agent_config_history_select(uid, rec) ==
    \E a \in DOMAIN agents :
        /\ a = rec.agent_id
        /\ agents_select(uid, agents[a])
        /\ SqlEq(agents[a].organization_id, get_my_org(uid))

\* "Admins can insert config history": WITH CHECK (EXISTS (SELECT 1 FROM
\* profiles WHERE profiles.id = auth.uid() AND profiles.role = 'admin')); the
\* caller reads its own profile under profiles_select_own.
admins_can_insert_config_history(uid, rec) ==
    \E p \in DOMAIN profiles :
        /\ profiles_select_own(uid, profiles[p])
        /\ SqlEq(profiles[p].id, uid)
        /\ SqlEq(profiles[p].role, "admin")

agent_config_history_update_Admin(uid, rec) == am_i_admin(uid)

\* Row level security is enabled on agent_config_history and no policy is
\* created FOR UPDATE or FOR DELETE (nor FOR ALL): no row passes.
agent_config_history_update(uid, rec) == FALSE

agent_config_history_delete(uid, rec) == FALSE

knowledge_base_select(uid, row) == SqlEq(row.organization_id, get_my_org(uid))

knowledge_base_insert_admin(uid, row) ==
    SqlEq(row.organization_id, get_my_org(uid)) /\ am_i_admin(uid)

knowledge_base_delete_admin(uid, row) ==
    SqlEq(row.organization_id, get_my_org(uid)) /\ am_i_admin(uid)

(***************************************************************************)
(* What the policies read. A policy expression that queries a table itself *)
(* (not through a SECURITY DEFINER function) has that query filtered by    *)
(* the SELECT policies of the table it queries.                            *)
(***************************************************************************)
Policies ==
    {"profiles_select_own", "profiles_update_own",
     "agents_select", "agents_insert_admin", "agents_update_admin",
     "agents_delete_admin",
     "sub_agents_select_org", "sub_agents_insert_admin",
     "sub_agents_update_admin", "sub_agents_delete_admin",
     "agent_config_history_select", "Users can view agent config history",
     "Admins can insert config history",
     "knowledge_base_select", "knowledge_base_sub_agent_select",
     "knowledge_base_insert_admin", "knowledge_base_update_admin",
     "knowledge_base_delete_admin"}

\* The tables a policy expression queries under row level security;
\* get_my_org, am_i_admin, am_i_active and is_org_admin are SECURITY DEFINER
\* and read profiles without it.
RlsReads(policy) ==
    CASE policy \in {"sub_agents_select_org", "knowledge_base_sub_agent_select",
                     "Admins can insert config history",
                     "Admins can view org profiles"} -> {"profiles"}
      [] policy = "agent_config_history_select" -> {"agents"}
      [] policy = "Users can view agent config history" -> {"agents", "profiles"}
      [] OTHER -> {}

SelectPolicies_OrgAdmins(table) ==
    CASE table = "profiles" -> {"profiles_select_own", "Admins can view org profiles"}
      [] table = "agents" -> {"agents_select"}
      [] table = "sub_agents" -> {"sub_agents_select_org"}
      [] table = "agent_config_history" ->
             {"agent_config_history_select", "Users can view agent config history"}
      [] table = "knowledge_base" ->
             {"knowledge_base_select", "knowledge_base_sub_agent_select"}

\* The SELECT policies in force on a table.
SelectPolicies(table) ==
    CASE table = "profiles" -> {"profiles_select_own"}
      [] table = "agents" -> {"agents_select"}
      [] table = "sub_agents" -> {"sub_agents_select_org"}
      [] table = "agent_config_history" ->
             {"agent_config_history_select", "Users can view agent config history"}
      [] table = "knowledge_base" ->
             {"knowledge_base_select", "knowledge_base_sub_agent_select"}

\* Evaluating a policy evaluates the SELECT policies of every table it
\* queries under row level security; nesting is followed to depth fuel.
RECURSIVE Terminates(_, _)
Terminates(policy, fuel) ==
    IF fuel = 0 THEN FALSE
    ELSE \A table \in RlsReads(policy) :
             \A inner \in SelectPolicies(table) : Terminates(inner, fuel - 1)

\* No chain of distinct policies is longer than the number of policies.
MaxNesting == Cardinality(Policies) + 1

(***************************************************************************)
(* Table constraints                                                       *)
(***************************************************************************)
TemperatureCheck(row) == row.temperature >= TempMin /\ row.temperature <= TempMax

MaxTokensCheck_NoCeiling(row) == row.max_tokens > 0

MaxTokensCheck(row) == row.max_tokens > 0 /\ row.max_tokens <= MaxTokensMax

AgentSlugFree_AnyTenant(tbl, id, row) ==
    \A o \in DOMAIN tbl \ {id} : tbl[o].slug # row.slug

\* UNIQUE(organization_id, slug) against the other rows of tbl.
AgentSlugFree(tbl, id, row) ==
    \A o \in DOMAIN tbl \ {id} :
        ~(tbl[o].organization_id = row.organization_id /\ tbl[o].slug = row.slug)

\* UNIQUE(parent_agent_id, slug)
SubAgentSlugFree(tbl, id, row) ==
    \A o \in DOMAIN tbl \ {id} :
        ~(tbl[o].parent_agent_id = row.parent_agent_id /\ tbl[o].slug = row.slug)

(***************************************************************************)
(* Statements: a patch is a function from the columns of the SET clause to *)
(* their new values; columns it leaves out keep the value of the old row.  *)
(***************************************************************************)
ApplyPatch(old, patch) ==
    [c \in DOMAIN old |-> IF c \in DOMAIN patch THEN patch[c] ELSE old[c]]

Remove(tbl, ids) == [i \in DOMAIN tbl \ ids |-> tbl[i]]

(***************************************************************************)
(* The audit trigger: BEFORE UPDATE ON agents FOR EACH ROW                 *)
(***************************************************************************)
TrackedFields == {"name", "role", "system_prompt", "ai_model", "temperature",
                  "is_active"}

PrevConfigFields == {"name", "role", "description", "system_prompt", "ai_model",
                     "temperature", "max_tokens", "is_active"}

\* The value the trigger writes into the diff for column c.
DiffValue(c, v) == IF c = "system_prompt" THEN Left(v, PreviewLen) ELSE v

changes_json(OldRow, NewRow) ==
    [c \in {f \in TrackedFields : IsDistinctFrom(OldRow[f], NewRow[f])} |->
        [old |-> DiffValue(c, OldRow[c]), new |-> DiffValue(c, NewRow[c])]]

prev_config(OldRow) == [c \in PrevConfigFields |-> OldRow[c]]

\* The outcome of the trigger: the row to store and the audit records to add
\* (changed_at is left to the column default).
track_agent_config_change(id, OldRow, NewRow) ==
    LET changes == changes_json(OldRow, NewRow)
    IN  IF DOMAIN changes # {} /\ NewRow.modified_by # NULL
        THEN [row |-> [NewRow EXCEPT !.version = Coalesce(OldRow.version, 0) + 1],
              inserted |-> << [agent_id |-> id,
                               changed_by |-> NewRow.modified_by,
                               changes |-> changes,
                               previous_config |-> prev_config(OldRow)] >>]
        ELSE [row |-> NewRow, inserted |-> << >>]

(***************************************************************************)
(* Transactions on agents                                                  *)
(***************************************************************************)
Unchanged(res) ==
    [result |-> res, agents |-> agents, sub_agents |-> sub_agents,
     history |-> agent_config_history, knowledge_base |-> knowledge_base,
          events |-> << >>]

\* A row change of the agents table as the realtime publication reports it:
\* the new row of an INSERT or UPDATE, the old row of a DELETE.
ChangeEvent(eventType, id, row) == [eventType |-> eventType, id |-> id, row |-> row]

\* changed_at TIMESTAMPTZ DEFAULT NOW(): NOW() is the start time of the
\* transaction that inserts the record.
StampedAt(recs, now) ==
    [i \in 1..Len(recs) |->
        [agent_id |-> recs[i].agent_id, changed_by |-> recs[i].changed_by,
         changed_at |-> now, changes |-> recs[i].changes,
         previous_config |-> recs[i].previous_config]]

\* A transaction: its start time and the table as it was when it began.
Tx(started, snapshot) == [started |-> started, snapshot |-> snapshot]

\* A statement that runs alone: it begins and commits at the current time.
Alone == Tx(clock, agents)

LockedRow_Snapshot(id, snapshot) ==
    IF id \in DOMAIN snapshot THEN snapshot[id] ELSE agents[id]

\* The row an UPDATE works on (OLD in the trigger): under READ COMMITTED the
\* statement waits for the row lock and then takes the latest committed
\* version of the row, not the one of its snapshot.
LockedRow(id, snapshot) == agents[id]

\* INSERT INTO agents: WITH CHECK, then the CHECK constraints, then the keys.
InsertAgentTxn(uid, id, row) ==
    IF ~agents_insert_admin(uid, row) THEN Unchanged("denied")
    ELSE IF ~(TemperatureCheck(row) /\ MaxTokensCheck(row)) THEN Unchanged("invalid")
    ELSE IF id \in DOMAIN agents \/ ~AgentSlugFree(agents, id, row)
         THEN Unchanged("conflict")
    ELSE [result |-> "ok", agents |-> agents @@ (id :> row),
          sub_agents |-> sub_agents, history |-> agent_config_history,
          knowledge_base |-> knowledge_base,
          events |-> << ChangeEvent("INSERT", id, row) >>]

\* UPDATE agents SET patch WHERE id = id: the USING clause picks the row, the
\* BEFORE UPDATE trigger runs, then WITH CHECK and the constraints see the new
\* row; an error rolls the trigger's insert back with the statement.
UpdateAgentTxnIn(tx, uid, id, patch) ==
    IF id \notin DOMAIN agents THEN Unchanged("notfound")
    ELSE IF ~agents_select(uid, agents[id]) THEN Unchanged("notfound")
    ELSE IF ~agents_update_admin(uid, agents[id]) THEN Unchanged("denied")
    ELSE LET OldRow == LockedRow(id, tx.snapshot)
             t == track_agent_config_change(id, OldRow, ApplyPatch(OldRow, patch))
         IN  IF ~agents_update_admin(uid, t.row) THEN Unchanged("denied")
             ELSE IF ~(TemperatureCheck(t.row) /\ MaxTokensCheck(t.row))
                  THEN Unchanged("invalid")
             ELSE IF ~AgentSlugFree(agents, id, t.row) THEN Unchanged("conflict")
             ELSE [result |-> "ok",
                   agents |-> [agents EXCEPT ![id] = t.row],
                   sub_agents |-> sub_agents,
                   history |-> agent_config_history
                                   \o StampedAt(t.inserted, tx.started),
                   knowledge_base |-> knowledge_base,
                   events |-> << ChangeEvent("UPDATE", id, t.row) >>]

UpdateAgentTxn(uid, id, patch) == UpdateAgentTxnIn(Alone, uid, id, patch)

DeleteAgentTxn_KeepsSubKnowledge(uid, id) ==
    IF id \notin DOMAIN agents THEN Unchanged("notfound")
    ELSE IF ~agents_select(uid, agents[id]) THEN Unchanged("notfound")
    ELSE IF ~agents_delete_admin(uid, agents[id]) THEN Unchanged("denied")
    ELSE LET Kept(rec) == rec.agent_id # id
             subs == {s \in DOMAIN sub_agents : sub_agents[s].parent_agent_id = id}
         IN  [result |-> "ok",
              agents |-> Remove(agents, {id}),
              sub_agents |-> Remove(sub_agents, subs),
              history |-> SelectSeq(agent_config_history, Kept),
              knowledge_base |-> Remove(knowledge_base,
                  {k \in DOMAIN knowledge_base : knowledge_base[k].agent_id = id}),
              events |-> << ChangeEvent("DELETE", id, agents[id]) >>]

\* DELETE FROM agents WHERE id = id, with ON DELETE CASCADE to the audit
\* records, to the sub-agents of the row, and to the knowledge records of
\* the row and of those sub-agents; the cascade is not subject to the
\* policies of the tables it reaches.
DeleteAgentTxn(uid, id) ==
    IF id \notin DOMAIN agents THEN Unchanged("notfound")
    ELSE IF ~agents_select(uid, agents[id]) THEN Unchanged("notfound")
    ELSE IF ~agents_delete_admin(uid, agents[id]) THEN Unchanged("denied")
    ELSE LET Kept(rec) == rec.agent_id # id
             subs == {s \in DOMAIN sub_agents : sub_agents[s].parent_agent_id = id}
         IN  [result |-> "ok",
              agents |-> Remove(agents, {id}),
              sub_agents |-> Remove(sub_agents, subs),
              history |-> SelectSeq(agent_config_history, Kept),
              knowledge_base |-> Remove(knowledge_base,
                  {k \in DOMAIN knowledge_base :
                      \/ knowledge_base[k].agent_id = id
                      \/ knowledge_base[k].sub_agent_id \in subs}),
              events |-> << ChangeEvent("DELETE", id, agents[id]) >>]

\* SELECT * FROM agents WHERE id = id
GetAgent(uid, id) ==
    IF id \in DOMAIN agents /\ agents_select(uid, agents[id])
    THEN [result |-> "ok", rows |-> {agents[id]}]
    ELSE [result |-> "notfound", rows |-> {}]

\* SELECT * FROM agents
ListAgents(uid) == {id \in DOMAIN agents : agents_select(uid, agents[id])}

\* SELECT * FROM agent_config_history WHERE agent_id = id
GetAgentHistory(uid, id) ==
    LET Visible(rec) == rec.agent_id = id /\ agent_config_history_select(uid, rec)
    IN  SelectSeq(agent_config_history, Visible)

\* INSERT INTO agent_config_history (...) VALUES rec, issued by a client:
\* WITH CHECK, then the foreign keys to agents and to profiles.
InsertHistoryTxn(uid, rec) ==
    IF ~admins_can_insert_config_history(uid, rec) THEN Unchanged("denied")
    ELSE IF rec.agent_id \notin DOMAIN agents \/ rec.changed_by \notin DOMAIN profiles
         THEN Unchanged("invalid")
    ELSE [result |-> "ok", agents |-> agents, sub_agents |-> sub_agents,
          history |-> Append(agent_config_history, rec), knowledge_base |-> knowledge_base,
          events |-> << >>]

\* UPDATE agent_config_history SET patch on the i-th record, issued by a
\* client: the record has to be visible and to pass the UPDATE policies.
UpdateHistoryTxn(uid, i, patch) ==
    IF i \notin DOMAIN agent_config_history THEN Unchanged("notfound")
    ELSE IF ~agent_config_history_select(uid, agent_config_history[i])
         THEN Unchanged("notfound")
    ELSE IF ~agent_config_history_update(uid, agent_config_history[i])
         THEN Unchanged("denied")
    ELSE [result |-> "ok", agents |-> agents, sub_agents |-> sub_agents,
          history |-> [agent_config_history EXCEPT
                          ![i] = ApplyPatch(agent_config_history[i], patch)],
          knowledge_base |-> knowledge_base,
          events |-> << >>]

\* DELETE FROM agent_config_history of the i-th record, issued by a client.
DeleteHistoryTxn(uid, i) ==
    IF i \notin DOMAIN agent_config_history THEN Unchanged("notfound")
    ELSE IF ~agent_config_history_select(uid, agent_config_history[i])
         THEN Unchanged("notfound")
    ELSE IF ~agent_config_history_delete(uid, agent_config_history[i])
         THEN Unchanged("denied")
    ELSE [result |-> "ok", agents |-> agents, sub_agents |-> sub_agents,
          history |-> [k \in 1..(Len(agent_config_history) - 1) |->
                          IF k < i THEN agent_config_history[k]
                          ELSE agent_config_history[k + 1]],
          knowledge_base |-> knowledge_base,
          events |-> << >>]

(***************************************************************************)
(* Transactions on sub_agents                                              *)
(***************************************************************************)
\* INSERT INTO sub_agents: WITH CHECK, the CHECK constraints, the unique
\* key, then the foreign key to agents.
InsertSubAgentTxn(uid, id, row) ==
    IF ~sub_agents_insert_admin(uid, row) THEN Unchanged("denied")
    ELSE IF ~(TemperatureCheck(row) /\ MaxTokensCheck(row)) THEN Unchanged("invalid")
    ELSE IF id \in DOMAIN sub_agents \/ ~SubAgentSlugFree(sub_agents, id, row)
         THEN Unchanged("conflict")
    ELSE IF row.parent_agent_id \notin DOMAIN agents THEN Unchanged("invalid")
    ELSE [result |-> "ok", agents |-> agents,
          sub_agents |-> sub_agents @@ (id :> row),
          history |-> agent_config_history, knowledge_base |-> knowledge_base,
          events |-> << >>]

UpdateSubAgentTxn(uid, id, patch) ==
    IF id \notin DOMAIN sub_agents THEN Unchanged("notfound")
    ELSE IF ~sub_agents_select_org(uid, sub_agents[id]) THEN Unchanged("notfound")
    ELSE IF ~sub_agents_update_admin(uid, sub_agents[id]) THEN Unchanged("denied")
    ELSE LET NewRow == ApplyPatch(sub_agents[id], patch)
         IN  IF ~sub_agents_update_admin(uid, NewRow) THEN Unchanged("denied")
             ELSE IF ~(TemperatureCheck(NewRow) /\ MaxTokensCheck(NewRow))
                  THEN Unchanged("invalid")
             ELSE IF ~SubAgentSlugFree(sub_agents, id, NewRow)
                  THEN Unchanged("conflict")
             ELSE IF NewRow.parent_agent_id \notin DOMAIN agents
                  THEN Unchanged("invalid")
             ELSE [result |-> "ok", agents |-> agents,
                   sub_agents |-> [sub_agents EXCEPT ![id] = NewRow],
                   history |-> agent_config_history,
                   knowledge_base |-> knowledge_base,
                   events |-> << >>]

\* DELETE FROM sub_agents WHERE id = id, with ON DELETE CASCADE to the
\* knowledge records of the row.
DeleteSubAgentTxn(uid, id) ==
    IF id \notin DOMAIN sub_agents THEN Unchanged("notfound")
    ELSE IF ~sub_agents_select_org(uid, sub_agents[id]) THEN Unchanged("notfound")
    ELSE IF ~sub_agents_delete_admin(uid, sub_agents[id]) THEN Unchanged("denied")
    ELSE [result |-> "ok", agents |-> agents,
          sub_agents |-> Remove(sub_agents, {id}),
          history |-> agent_config_history,
          knowledge_base |-> Remove(knowledge_base,
              {k \in DOMAIN knowledge_base : knowledge_base[k].sub_agent_id = id}),
          events |-> << >>]

GetSubAgent(uid, id) ==
    IF id \in DOMAIN sub_agents /\ sub_agents_select_org(uid, sub_agents[id])
    THEN [result |-> "ok", rows |-> {sub_agents[id]}]
    ELSE [result |-> "notfound", rows |-> {}]

(***************************************************************************)
(* Transactions on knowledge_base                                          *)
(***************************************************************************)
\* INSERT INTO knowledge_base: WITH CHECK, then the foreign keys of agent_id
\* and sub_agent_id (a NULL reference is not checked).
InsertKnowledgeTxn(uid, id, row) ==
    IF ~knowledge_base_insert_admin(uid, row) THEN Unchanged("denied")
    ELSE IF id \in DOMAIN knowledge_base THEN Unchanged("conflict")
    ELSE IF \/ (row.agent_id # NULL /\ row.agent_id \notin DOMAIN agents)
            \/ (row.sub_agent_id # NULL /\ row.sub_agent_id \notin DOMAIN sub_agents)
         THEN Unchanged("invalid")
    ELSE [result |-> "ok", agents |-> agents, sub_agents |-> sub_agents,
          history |-> agent_config_history,
          knowledge_base |-> knowledge_base @@ (id :> row),
          events |-> << >>]

\* DELETE FROM knowledge_base WHERE id = id
DeleteKnowledgeTxn(uid, id) ==
    IF id \notin DOMAIN knowledge_base THEN Unchanged("notfound")
    ELSE IF ~knowledge_base_select(uid, knowledge_base[id]) THEN Unchanged("notfound")
    ELSE IF ~knowledge_base_delete_admin(uid, knowledge_base[id])
         THEN Unchanged("denied")
    ELSE [result |-> "ok", agents |-> agents, sub_agents |-> sub_agents,
          history |-> agent_config_history,
          knowledge_base |-> Remove(knowledge_base, {id}),
          events |-> << >>]

(***************************************************************************)
(* Transactions on profiles                                                *)
(***************************************************************************)
\* UPDATE profiles SET patch WHERE id = target, under profiles_select_own and
\* profiles_update_own (the only policies left on profiles).
UpdateProfileTxn(uid, target, patch) ==
    IF target \notin DOMAIN profiles THEN [result |-> "notfound", profiles |-> profiles]
    ELSE IF ~profiles_select_own(uid, profiles[target])
         THEN [result |-> "notfound", profiles |-> profiles]
    ELSE IF ~profiles_update_own(uid, profiles[target])
         THEN [result |-> "denied", profiles |-> profiles]
    ELSE IF ~profiles_update_own(uid, ApplyPatch(profiles[target], patch))
         THEN [result |-> "denied", profiles |-> profiles]
    ELSE [result |-> "ok",
          profiles |-> [profiles EXCEPT ![target] = ApplyPatch(@, patch)]]

\* SELECT * FROM profiles
ListProfiles(uid) ==
    {p \in DOMAIN profiles : profiles_select_own(uid, profiles[p])}

soft_delete_user_Overwrite(uid, target_user_id, now) ==
    IF target_user_id \in DOMAIN profiles
    THEN [result |-> TRUE,
          profiles |-> [profiles EXCEPT ![target_user_id].deleted_at = now]]
    ELSE [result |-> FALSE, profiles |-> profiles]

\* rpc soft_delete_user(target_user_id) called by uid at time now; the
\* function is SECURITY DEFINER and does not look at auth.uid().
soft_delete_user(uid, target_user_id, now) ==
    IF target_user_id \in DOMAIN profiles
       /\ profiles[target_user_id].deleted_at = NullInt
    THEN [result |-> TRUE,
          profiles |-> [profiles EXCEPT ![target_user_id].deleted_at = now]]
    ELSE [result |-> FALSE, profiles |-> profiles]

\* rpc restore_user(target_user_id) called by uid.
restore_user(uid, target_user_id) ==
    IF target_user_id \in DOMAIN profiles
       /\ profiles[target_user_id].deleted_at # NullInt
    THEN [result |-> TRUE,
          profiles |-> [profiles EXCEPT ![target_user_id].deleted_at = NullInt]]
    ELSE [result |-> FALSE, profiles |-> profiles]

(***************************************************************************)
(* AuthProvider (browser)                                                  *)
(***************************************************************************)
\* fetchProfile(userId): the profile row of an active user, or null when the
\* row is filtered out, the query fails or the 8 s timeout wins the race.
fetchProfile(userId) ==
    {NoProfile} \cup
    {profiles[p] : p \in {q \in DOMAIN profiles :
                            /\ q = userId
                            /\ profiles_select_own(userId, profiles[q])
                            /\ profiles[q].deleted_at = NullInt}}

\* if (profileData !== null) setProfile(profileData): the profile the
\* provider holds after a refresh that fetched profileData.
setProfileIfFetched(profileData, profile) ==
    IF profileData # NoProfile THEN profileData ELSE profile

(***************************************************************************)
(* Realtime publication of the agents table and database sessions          *)
(***************************************************************************)
\* organizationId of the mounted hook.
SubscriberOrg == "T1"

\* filter: `organization_id=eq.${organizationId}`
MatchesFilter(event) == SqlEq(event.row.organization_id, SubscriberOrg)

\* The row changes of a commit reach the hook's channel while it is joined.
Publish(events) ==
    IF channel = "SUBSCRIBED" THEN queue \o SelectSeq(events, MatchesFilter)
    ELSE queue

\* setError("Error al cargar los agentes")
LoadError == "Error al cargar los agentes"

\* No payload has reached the handler.
NoPayload == [eventType |-> "NONE", id |-> NULL]

\* An entry of the hook's agents array.
ViewEntry(id, row) == [id |-> id, row |-> row]

InView(prev, id) == \E k \in DOMAIN prev : prev[k].id = id

Without(prev, id) ==
    LET Other(a) == a.id # id IN SelectSeq(prev, Other)

onPayload_MapInPlace(only, prev, payload) ==
    IF payload.eventType = "INSERT"
    THEN IF ~only \/ payload.row.is_active
         THEN Append(prev, ViewEntry(payload.id, payload.row))
         ELSE prev
    ELSE IF payload.eventType = "UPDATE"
    THEN [k \in DOMAIN prev |->
             IF prev[k].id = payload.id THEN ViewEntry(payload.id, payload.row)
             ELSE prev[k]]
    ELSE Without(prev, payload.id)

\* The postgres_changes callback: the agents array after setAgents, from
\* the array before (prev), the hook's activeOnly option and the payload.
onPayload(only, prev, payload) ==
    IF payload.eventType = "INSERT"
    THEN IF ~only \/ payload.row.is_active
         THEN Append(prev, ViewEntry(payload.id, payload.row))
         ELSE prev
    ELSE IF payload.eventType = "UPDATE"
    THEN IF only /\ ~payload.row.is_active
         THEN Without(prev, payload.id)
         ELSE IF only /\ payload.row.is_active /\ ~InView(prev, payload.id)
         THEN Append(prev, ViewEntry(payload.id, payload.row))
         ELSE [k \in DOMAIN prev |->
                  IF prev[k].id = payload.id
                  THEN ViewEntry(payload.id, payload.row)
                  ELSE prev[k]]
    ELSE Without(prev, payload.id)

\* The order in which a list call returns the agents.
AgentOrder == << "a1", "a2" >>

\* apiClient.getAgents(organizationId, activeOnly): the agents of the
\* organisation, the active ones only when active_only=true is sent.
getAgents(organizationId, only) ==
    LET Listed(id) ==
            /\ id \in DOMAIN agents
            /\ SqlEq(agents[id].organization_id, organizationId)
            /\ (only => agents[id].is_active)
        ids == SelectSeq(AgentOrder, Listed)
    IN  [k \in DOMAIN ids |-> ViewEntry(ids[k], agents[ids[k]])]

\* getMockAgents(organizationId): the fallback of a failed list call, an
\* active and an inactive agent whatever the activeOnly option.
getMockAgents(organizationId) ==
    << ViewEntry("m5", [organization_id |-> organizationId, slug |-> "agent-copy",
                        name |-> "Agent Copy", role |-> "Copywriting Specialist",
                        description |-> "d5", system_prompt |-> PromptShort,
                        ai_model |-> "gpt-4o-mini", temperature |-> 8,
                        max_tokens |-> 4096, is_active |-> TRUE,
                        version |-> 1, modified_by |-> NULL]),
       ViewEntry("m6", [organization_id |-> organizationId, slug |-> "agent-ads",
                        name |-> "Agent ADS", role |-> "Advertising Specialist",
                        description |-> "d6", system_prompt |-> PromptShort,
                        ai_model |-> "gpt-4o", temperature |-> 6,
                        max_tokens |-> 4096, is_active |-> FALSE,
                        version |-> 1, modified_by |-> NULL]) >>

Sessions == {"c1", "c2"}

Idle == [state |-> "idle"]

\* A session whose request has been answered: the outcome of the call and
\* the times at which its transaction began and ended.
Done(result, id, started, finished) ==
    [state |-> "done", result |-> result, id |-> id, started |-> started,
     finished |-> finished]

(***************************************************************************)
(* Inputs                                                                  *)
(***************************************************************************)
Modifiers == {"u1", "u3"}

AgentDataPatches ==
    {<< >>}
    \cup {("name" :> v) : v \in {"n1", "n2"}}
    \cup {("system_prompt" :> v) : v \in {PromptLongA, PromptLongB}}
    \cup {("temperature" :> v) : v \in {12, 21}}
    \cup {("is_active" :> v) : v \in {FALSE}}
    \cup {("max_tokens" :> v) : v \in {4096}}
    \cup {("version" :> v) : v \in {3}}
    \cup {("organization_id" :> v) : v \in {"T2"}}

AgentPatches ==
    AgentDataPatches
    \cup {p @@ ("modified_by" :> u) : p \in AgentDataPatches, u \in Modifiers}

\* The row of INSERT INTO agents (...) with the column defaults filled in.
AgentRow(org, slug, version, temperature) ==
    [organization_id |-> org, slug |-> slug, name |-> "n1", role |-> "r1",
     description |-> "d1", system_prompt |-> PromptShort, ai_model |-> "m1",
     temperature |-> temperature, max_tokens |-> DefaultMaxTokens,
     is_active |-> TRUE, version |-> version, modified_by |-> NULL]

NewAgentRows ==
    {AgentRow(org, slug, version, temperature) :
        org \in Orgs, slug \in {"copy", "ads"},
        version \in {DefaultVersion, 3}, temperature \in {DefaultTemperature, 21}}

SubAgentRow(parent, org) ==
    [parent_agent_id |-> parent, organization_id |-> org, slug |-> "sub",
     name |-> "n1", temperature |-> DefaultTemperature,
     max_tokens |-> DefaultMaxTokens, is_active |-> TRUE, modified_by |-> NULL]

NewSubAgentRows == {SubAgentRow(parent, org) : parent \in AgentIds, org \in Orgs}

SubAgentPatches ==
    {("name" :> "n2"), ("is_active" :> FALSE), ("organization_id" :> "T2"),
     ("temperature" :> 21)}

ProfilePatches ==
    {("role" :> v) : v \in {"admin", "user"}}
    \cup {("deleted_at" :> v) : v \in {NullInt}}
    \cup {("organization_id" :> v) : v \in Orgs \cup {NULL}}

\* Audit records a client writes itself.
ClientHistoryRecords ==
    {[agent_id |-> a, changed_by |-> "u2", changed_at |-> clock,
      changes |-> ("name" :> [old |-> "n2", new |-> "n1"]),
      previous_config |-> prev_config(AgentRow("T1", "copy", DefaultVersion, 8))] :
        a \in AgentIds}

HistoryPatches == {("changed_by" :> "u2"), ("changes" :> << >>)}

(***************************************************************************)
(* Initial state: the seeded organisation T1 with an admin and a member,   *)
(* a second organisation T2 with an admin, and one seeded agent.           *)
(***************************************************************************)
InitDb ==
    /\ profiles = [u \in Users |->
          [id |-> u,
           organization_id |-> IF u = "u3" THEN "T2" ELSE "T1",
           role |-> IF u = "u2" THEN "user" ELSE "admin",
           deleted_at |-> NullInt]]
    /\ agents = ("a1" :> AgentRow("T1", "copy", DefaultVersion, 8))
    /\ sub_agents = << >>
    /\ agent_config_history = << >>
    /\ knowledge_base = << >>
    /\ authUser = NULL
    /\ authProfile = NoProfile
    /\ steps = 0
    /\ clock = 0

\* No transaction has begun.
InitSessions == inflight = [s \in Sessions |-> Idle]

\* The hook is not mounted.
InitHook ==
    /\ viewAgents = << >>
    /\ activeOnly = FALSE
    /\ channel = "none"
    /\ queue = << >>
    /\ resynced = TRUE
    /\ isLoading = TRUE
    /\ error = NULL
    /\ logged = NoPayload

Init == InitDb /\ InitSessions /\ InitHook

(***************************************************************************)
(* Actions                                                                 *)
(***************************************************************************)
\* The commit of a statement: the tables change, the row changes go to the
\* realtime channel, and time passes.
Apply(r) ==
    /\ steps < MaxSteps
    /\ agents' = r.agents
    /\ sub_agents' = r.sub_agents
    /\ agent_config_history' = r.history
    /\ knowledge_base' = r.knowledge_base
    /\ queue' = Publish(r.events)
    /\ steps' = IF r.result = "ok" THEN steps + 1 ELSE steps
    /\ clock' = IF r.result = "ok" THEN clock + 1 ELSE clock
    /\ UNCHANGED <<profiles, authUser, authProfile, inflight,
                   viewAgents, activeOnly, channel, resynced, isLoading,
                   error, logged>>

ApplyProfiles(r, accepted) ==
    /\ steps < MaxSteps
    /\ profiles' = r.profiles
    /\ steps' = IF accepted THEN steps + 1 ELSE steps
    /\ clock' = IF accepted THEN clock + 1 ELSE clock
    /\ UNCHANGED <<agents, sub_agents, agent_config_history, knowledge_base,
                   authUser, authProfile, inflight, hookvars>>

InsertAgent ==
    \E uid \in Users, id \in AgentIds, row \in NewAgentRows :
        Apply(InsertAgentTxn(uid, id, row))

UpdateAgent ==
    \E uid \in Users, id \in AgentIds, patch \in AgentPatches :
        Apply(UpdateAgentTxn(uid, id, patch))

DeleteAgent ==
    \E uid \in Users, id \in AgentIds : Apply(DeleteAgentTxn(uid, id))

InsertSubAgent ==
    \E uid \in Users, id \in SubAgentIds, row \in NewSubAgentRows :
        Apply(InsertSubAgentTxn(uid, id, row))

UpdateSubAgent ==
    \E uid \in Users, id \in SubAgentIds, patch \in SubAgentPatches :
        Apply(UpdateSubAgentTxn(uid, id, patch))

DeleteSubAgent ==
    \E uid \in Users, id \in SubAgentIds : Apply(DeleteSubAgentTxn(uid, id))

InsertHistory ==
    \E uid \in Users, rec \in ClientHistoryRecords :
        Apply(InsertHistoryTxn(uid, rec))

UpdateHistory ==
    \E uid \in Users, i \in 1..MaxSteps, patch \in HistoryPatches :
        Apply(UpdateHistoryTxn(uid, i, patch))

DeleteHistory ==
    \E uid \in Users, i \in 1..MaxSteps : Apply(DeleteHistoryTxn(uid, i))

UpdateProfile ==
    \E uid \in Users, target \in Users, patch \in ProfilePatches :
        LET r == UpdateProfileTxn(uid, target, patch)
        IN  ApplyProfiles(r, r.result = "ok")

SoftDeleteUser ==
    \E uid \in Users, target \in Users, now \in Times :
        LET r == soft_delete_user(uid, target, now)
        IN  ApplyProfiles(r, r.result)

RestoreUser ==
    \E uid \in Users, target \in Users :
        LET r == restore_user(uid, target)
        IN  ApplyProfiles(r, r.result)

\* signIn: signInWithPassword succeeds (the auth user is not touched by the
\* soft delete), then setProfile(profileData) whatever fetchProfile returned.
signIn ==
    \E u \in Users : \E profileData \in fetchProfile(u) :
        /\ steps < MaxSteps
        /\ authUser = NULL
        /\ authUser' = u
        /\ authProfile' = profileData
        /\ steps' = steps + 1
        /\ UNCHANGED <<dbvars, clock, inflight, hookvars>>

\* onAuthStateChange, event TOKEN_REFRESHED: the profile is replaced only
\* when fetchProfile returned one.
TokenRefreshed ==
    \E profileData \in fetchProfile(authUser) :
        /\ steps < MaxSteps
        /\ authUser # NULL
        /\ authProfile' = setProfileIfFetched(profileData, authProfile)
        /\ steps' = steps + 1
        /\ UNCHANGED <<authUser, dbvars, clock, inflight, hookvars>>

\* refreshProfile(): as above.
refreshProfile ==
    \E profileData \in fetchProfile(authUser) :
        /\ steps < MaxSteps
        /\ authUser # NULL
        /\ authProfile' = setProfileIfFetched(profileData, authProfile)
        /\ steps' = steps + 1
        /\ UNCHANGED <<authUser, dbvars, clock, inflight, hookvars>>

signOut ==
    /\ steps < MaxSteps
    /\ authUser # NULL
    /\ authUser' = NULL
    /\ authProfile' = NoProfile
    /\ steps' = steps + 1
    /\ UNCHANGED <<dbvars, clock, inflight, hookvars>>

Next ==
    \/ InsertAgent
    \/ UpdateAgent
    \/ DeleteAgent
    \/ InsertSubAgent
    \/ UpdateSubAgent
    \/ DeleteSubAgent
    \/ InsertHistory
    \/ UpdateHistory
    \/ DeleteHistory
    \/ UpdateProfile
    \/ SoftDeleteUser
    \/ RestoreUser
    \/ signIn
    \/ TokenRefreshed
    \/ refreshProfile
    \/ signOut

Spec == Init /\ [][Next]_vars

(***************************************************************************)
(* The realtime hook: a client mounts useAgentsRealtime for SubscriberOrg   *)
(* while admins change the agents.                                         *)
(***************************************************************************)
RtUsers == {"u1", "u3"}

RtRows ==
    {AgentRow("T1", "ads", DefaultVersion, DefaultTemperature),
     [AgentRow("T1", "ads", DefaultVersion, DefaultTemperature)
         EXCEPT !.is_active = FALSE],
     AgentRow("T2", "ads", DefaultVersion, DefaultTemperature)}

RtPatches ==
    {("is_active" :> FALSE) @@ ("modified_by" :> "u1"),
     ("is_active" :> TRUE) @@ ("modified_by" :> "u1"),
     ("name" :> "n2") @@ ("modified_by" :> "u1"),
     ("max_tokens" :> 4096)}

RtInsertAgent ==
    \E uid \in RtUsers, id \in AgentIds, row \in RtRows :
        Apply(InsertAgentTxn(uid, id, row))

RtUpdateAgent ==
    \E uid \in RtUsers, id \in AgentIds, patch \in RtPatches :
        Apply(UpdateAgentTxn(uid, id, patch))

RtDeleteAgent ==
    \E uid \in RtUsers, id \in AgentIds : Apply(DeleteAgentTxn(uid, id))

\* The effect of the hook: loadAgents() is called and the channel is joined;
\* the answer of the list call arrives later (loadAgentsOk, loadAgentsFailed).
Mount ==
    /\ channel = "none"
    /\ channel' = "SUBSCRIBED"
    /\ UNCHANGED <<dbvars, authUser, authProfile, steps, clock, inflight,
                   viewAgents, activeOnly, queue, resynced, isLoading,
                   error, logged>>

\* loadAgents (from the effect, or as refresh): the list call answers.
loadAgentsOk ==
    /\ channel # "none"
    /\ viewAgents' = getAgents(SubscriberOrg, activeOnly)
    /\ resynced' = TRUE
    /\ isLoading' = FALSE
    /\ error' = NULL
    /\ UNCHANGED <<dbvars, authUser, authProfile, steps, clock, inflight,
                   activeOnly, channel, queue, logged>>

\* loadAgents: the list call fails and the mock agents are shown.
loadAgentsFailed ==
    /\ channel # "none"
    /\ viewAgents' = getMockAgents(SubscriberOrg)
    /\ resynced' = TRUE
    /\ isLoading' = FALSE
    /\ error' = LoadError
    /\ UNCHANGED <<dbvars, authUser, authProfile, steps, clock, inflight,
                   activeOnly, channel, queue, logged>>

\* The channel hands the next payload to the callback.
Deliver ==
    /\ channel = "SUBSCRIBED"
    /\ queue # << >>
    /\ logged' = Head(queue)
    /\ viewAgents' = onPayload(activeOnly, viewAgents, Head(queue))
    /\ queue' = Tail(queue)
    /\ UNCHANGED <<dbvars, authUser, authProfile, steps, clock, inflight,
                   activeOnly, channel, resynced, isLoading,
                   error>>

\* The socket drops: what was on its way is gone, and nothing is sent to
\* the hook until the channel has joined again.
ConnectionLost ==
    /\ channel = "SUBSCRIBED"
    /\ channel' = "CLOSED"
    /\ queue' = << >>
    /\ UNCHANGED <<dbvars, authUser, authProfile, steps, clock, inflight,
                   viewAgents, activeOnly, resynced, isLoading,
                   error, logged>>

\* The channel joins again; the subscribe callback logs the status.
Reconnect ==
    /\ channel = "CLOSED"
    /\ channel' = "SUBSCRIBED"
    /\ resynced' = FALSE
    /\ UNCHANGED <<dbvars, authUser, authProfile, steps, clock, inflight,
                   viewAgents, activeOnly, queue, isLoading,
                   error, logged>>

\* The cleanup of the effect: removeChannel; the component's state goes.
Unmount ==
    /\ channel # "none"
    /\ channel' = "none"
    /\ queue' = << >>
    /\ viewAgents' = << >>
    /\ resynced' = TRUE
    /\ isLoading' = TRUE
    /\ error' = NULL
    /\ logged' = NoPayload
    /\ UNCHANGED <<dbvars, authUser, authProfile, steps, clock, inflight,
                   activeOnly>>

InitRealtime ==
    /\ InitDb
    /\ InitSessions
    /\ viewAgents = << >>
    /\ activeOnly \in BOOLEAN
    /\ channel = "none"
    /\ queue = << >>
    /\ resynced = TRUE
    /\ isLoading = TRUE
    /\ error = NULL
    /\ logged = NoPayload

NextRealtime ==
    \/ RtInsertAgent
    \/ RtUpdateAgent
    \/ RtDeleteAgent
    \/ Mount
    \/ loadAgentsOk
    \/ loadAgentsFailed
    \/ Deliver
    \/ ConnectionLost
    \/ Reconnect
    \/ Unmount

SpecRealtime == InitRealtime /\ [][NextRealtime]_vars

(***************************************************************************)
(* Concurrent updates: each session sends updateAgent requests; a request  *)
(* is a transaction that begins, waits for the row, and commits.            *)
(***************************************************************************)
CcPatches ==
    {("name" :> "n2") @@ ("modified_by" :> "u1"),
     ("temperature" :> 12) @@ ("modified_by" :> "u1"),
     ("is_active" :> FALSE) @@ ("modified_by" :> "u1")}

Begun(s) == inflight[s].state = "begun"

\* BEGIN: the transaction takes its start time (what NOW() will return) and
\* its snapshot; no two transactions begin at the same instant.
BeginUpdate ==
    \E s \in Sessions, id \in AgentIds, patch \in CcPatches :
        /\ ~Begun(s)
        /\ steps + Cardinality({o \in Sessions : Begun(o)}) < MaxSteps
        /\ inflight' = [inflight EXCEPT ![s] =
               [state |-> "begun", tx |-> Tx(clock, agents), uid |-> "u1",
                id |-> id, patch |-> patch]]
        /\ clock' = clock + 1
        /\ UNCHANGED <<dbvars, authUser, authProfile, steps, hookvars>>

\* The UPDATE of the transaction gets the row lock, runs with its trigger,
\* and the transaction commits (or fails and rolls back).
CommitUpdate ==
    \E s \in Sessions :
        /\ Begun(s)
        /\ LET r == UpdateAgentTxnIn(inflight[s].tx, inflight[s].uid,
                                     inflight[s].id, inflight[s].patch)
           IN  /\ agents' = r.agents
               /\ sub_agents' = r.sub_agents
               /\ agent_config_history' = r.history
               /\ knowledge_base' = r.knowledge_base
               /\ queue' = Publish(r.events)
               /\ inflight' = [inflight EXCEPT ![s] =
                      Done(r.result, inflight[s].id, inflight[s].tx.started,
                           clock)]
        /\ steps' = steps + 1
        /\ UNCHANGED <<profiles, authUser, authProfile, clock, viewAgents,
                       activeOnly, channel, resynced, isLoading,
                   error, logged>>

NextConcurrent ==
    \/ BeginUpdate
    \/ CommitUpdate

SpecConcurrent == Init /\ [][NextConcurrent]_vars

(***************************************************************************)
(* The agent hierarchy: agents, their sub-agents and the knowledge records  *)
(* attached to either, after an admin of T1 has set up two agents.          *)
(***************************************************************************)
HAgentIds == {"a1", "a2", "a3"}

HSubAgentIds == {"s1", "s2", "s3"}

KbIds == {"k1", "k2", "k3", "k4", "k5"}

\* A row of knowledge_base: its owner and what it is attached to.
KbRow(org, agent_id, sub_agent_id) ==
    [organization_id |-> org, agent_id |-> agent_id, sub_agent_id |-> sub_agent_id]

HAgentRows ==
    {AgentRow(org, slug, DefaultVersion, temperature) :
        org \in Orgs, slug \in {"copy", "ads"}, temperature \in {DefaultTemperature, 21}}
    \cup {[AgentRow("T1", "new", DefaultVersion, DefaultTemperature)
              EXCEPT !.max_tokens = v] : v \in {0, MaxTokensMax + 1}}

HSubAgentRows ==
    {[SubAgentRow(parent, org) EXCEPT !.slug = slug] :
        parent \in {"a1", "a2"}, org \in Orgs, slug \in {"sub", "sub2"}}
    \cup {[SubAgentRow("a1", "T1") EXCEPT !.slug = "hot", !.temperature = 21]}

HSubAgentPatches ==
    {("name" :> "n2") @@ ("modified_by" :> "u1"),
     ("parent_agent_id" :> "a2"),
     ("slug" :> "sub2"),
     ("organization_id" :> "T2"),
     ("temperature" :> 21),
     ("max_tokens" :> 0)}

HAgentPatches ==
    {("temperature" :> 21) @@ ("modified_by" :> "u1"),
     ("max_tokens" :> MaxTokensMax + 1) @@ ("modified_by" :> "u1"),
     ("temperature" :> 12) @@ ("max_tokens" :> 0) @@ ("modified_by" :> "u1"),
     ("slug" :> "ads"),
     ("temperature" :> 12) @@ ("modified_by" :> "u1")}

HKbRows ==
    {KbRow(org, a, NULL) : org \in Orgs, a \in {"a1", "a2"}}
    \cup {KbRow(org, NULL, sa) : org \in Orgs, sa \in {"s1", "s3"}}

InitHierarchy ==
    /\ profiles = [u \in Users |->
          [id |-> u,
           organization_id |-> IF u = "u3" THEN "T2" ELSE "T1",
           role |-> IF u = "u2" THEN "user" ELSE "admin",
           deleted_at |-> NullInt]]
    /\ agents = ("a1" :> AgentRow("T1", "copy", DefaultVersion, 8))
                @@ ("a2" :> AgentRow("T1", "ads", DefaultVersion, DefaultTemperature))
    /\ sub_agents = ("s1" :> SubAgentRow("a1", "T1"))
                    @@ ("s2" :> [SubAgentRow("a1", "T1") EXCEPT !.slug = "sub2"])
    /\ agent_config_history = << >>
    /\ knowledge_base = ("k1" :> KbRow("T1", "a1", NULL))
                        @@ ("k2" :> KbRow("T1", NULL, "s1"))
                        @@ ("k3" :> KbRow("T1", NULL, "s2"))
                        @@ ("k4" :> KbRow("T1", "a2", NULL))
    /\ authUser = NULL
    /\ authProfile = NoProfile
    /\ steps = 0
    /\ clock = 0
    /\ InitSessions
    /\ InitHook

HInsertAgent ==
    \E uid \in Users, id \in HAgentIds, row \in HAgentRows :
        Apply(InsertAgentTxn(uid, id, row))

HUpdateAgent ==
    \E uid \in Users, id \in HAgentIds, patch \in HAgentPatches :
        Apply(UpdateAgentTxn(uid, id, patch))

HDeleteAgent ==
    \E uid \in Users, id \in HAgentIds : Apply(DeleteAgentTxn(uid, id))

HInsertSubAgent ==
    \E uid \in Users, id \in HSubAgentIds, row \in HSubAgentRows :
        Apply(InsertSubAgentTxn(uid, id, row))

HUpdateSubAgent ==
    \E uid \in Users, id \in HSubAgentIds, patch \in HSubAgentPatches :
        Apply(UpdateSubAgentTxn(uid, id, patch))

HDeleteSubAgent ==
    \E uid \in Users, id \in HSubAgentIds : Apply(DeleteSubAgentTxn(uid, id))

HInsertKnowledge ==
    \E uid \in Users, id \in KbIds, row \in HKbRows :
        Apply(InsertKnowledgeTxn(uid, id, row))

HDeleteKnowledge ==
    \E uid \in Users, id \in KbIds : Apply(DeleteKnowledgeTxn(uid, id))

NextHierarchy ==
    \/ HInsertAgent
    \/ HUpdateAgent
    \/ HDeleteAgent
    \/ HInsertSubAgent
    \/ HUpdateSubAgent
    \/ HDeleteSubAgent
    \/ HInsertKnowledge
    \/ HDeleteKnowledge

SpecHierarchy == InitHierarchy /\ [][NextHierarchy]_vars

(***************************************************************************)
(* Properties                                                              *)
(***************************************************************************)
AuditCount(h, id) == Cardinality({i \in 1..Len(h) : h[i].agent_id = id})

Deactivated(uid) == profiles[uid].deleted_at # NullInt

ActiveAdminOf(uid, org) ==
    /\ profiles[uid].role = "admin"
    /\ profiles[uid].deleted_at = NullInt
    /\ profiles[uid].organization_id = org

TrackedChanged(id, patch) ==
    DOMAIN changes_json(agents[id], ApplyPatch(agents[id], patch))

\* C1: for every agent, the number of audit records that reference it is its
\* version minus one, after any sequence of creates, updates and deletes.
C1_AuditCountIsVersionMinusOne ==
    \A id \in DOMAIN agents :
        AuditCount(agent_config_history, id) = agents[id].version - 1

\* C2: a principal whose soft-delete timestamp is set is refused every
\* operation on agents, sub-agents and audit records: reads find nothing and
\* no write is accepted, whatever the principal's role.
C2_DeactivatedDeniedEverything ==
    \A uid \in Users :
        Deactivated(uid) =>
            /\ \A id \in AgentIds :
                /\ GetAgent(uid, id).result = "notfound"
                /\ GetAgentHistory(uid, id) = << >>
                /\ DeleteAgentTxn(uid, id).result # "ok"
                /\ \A patch \in AgentPatches :
                       UpdateAgentTxn(uid, id, patch).result # "ok"
                /\ \A row \in NewAgentRows :
                       InsertAgentTxn(uid, id, row).result # "ok"
            /\ ListAgents(uid) = {}
            /\ \A id \in SubAgentIds :
                /\ GetSubAgent(uid, id).result = "notfound"
                /\ DeleteSubAgentTxn(uid, id).result # "ok"
                /\ \A patch \in SubAgentPatches :
                       UpdateSubAgentTxn(uid, id, patch).result # "ok"
                /\ \A row \in NewSubAgentRows :
                       InsertSubAgentTxn(uid, id, row).result # "ok"

C4_WritesOnlyByActiveTenantAdmin ==
    \A uid \in Users :
        /\ \A id \in AgentIds :
            /\ \A row \in NewAgentRows :
                   InsertAgentTxn(uid, id, row).result = "ok"
                       => ActiveAdminOf(uid, row.organization_id)
            /\ \A patch \in AgentPatches :
                   UpdateAgentTxn(uid, id, patch).result = "ok"
                       => ActiveAdminOf(uid, agents[id].organization_id)
            /\ DeleteAgentTxn(uid, id).result = "ok"
                   => ActiveAdminOf(uid, agents[id].organization_id)
        /\ \A id \in SubAgentIds :
            /\ \A row \in NewSubAgentRows :
                   InsertSubAgentTxn(uid, id, row).result = "ok"
                       => ActiveAdminOf(uid, row.organization_id)
            /\ \A patch \in SubAgentPatches :
                   UpdateSubAgentTxn(uid, id, patch).result = "ok"
                       => ActiveAdminOf(uid, sub_agents[id].organization_id)
            /\ DeleteSubAgentTxn(uid, id).result = "ok"
                   => ActiveAdminOf(uid, sub_agents[id].organization_id)

\* C5: an accepted update that changes a tracked field and carries a
\* modifying principal raises the version by exactly one; an accepted update
\* that carries no modifying principal leaves the version and the audit
\* records as they were, whatever earlier updates carried.  (Updates that
\* write the version column itself are left out here.)
C5_VersionBumpNeedsModifier ==
    \A uid \in Users : \A id \in DOMAIN agents :
        \A patch \in {p \in AgentPatches : "version" \notin DOMAIN p} :
            LET r == UpdateAgentTxn(uid, id, patch)
            IN  r.result = "ok" =>
                    /\ ( /\ TrackedChanged(id, patch) # {}
                         /\ "modified_by" \in DOMAIN patch )
                       => r.agents[id].version = agents[id].version + 1
                    /\ "modified_by" \notin DOMAIN patch
                       => /\ r.agents[id].version = agents[id].version
                          /\ r.history = agent_config_history

\* C6: an accepted update that changes no tracked field leaves the version
\* and the number of audit records of the agent unchanged.
C6_NoTrackedChangeNoBump ==
    \A uid \in Users : \A id \in DOMAIN agents : \A patch \in AgentPatches :
        LET r == UpdateAgentTxn(uid, id, patch)
        IN  (r.result = "ok" /\ TrackedChanged(id, patch) = {}) =>
                /\ r.agents[id].version = agents[id].version
                /\ AuditCount(r.history, id) = AuditCount(agent_config_history, id)

\* C7: a newly created agent has version 1 and no audit record; an accepted
\* update that carries its modifying principal and changes exactly one
\* tracked field from a to b adds exactly one audit record, whose diff is
\* exactly that field with old a and new b, and raises the version by one.
C7_CreateAndSingleFieldUpdate ==
    \A uid \in Users : \A id \in AgentIds :
        /\ \A row \in NewAgentRows :
               LET r == InsertAgentTxn(uid, id, row)
               IN  r.result = "ok" =>
                       /\ r.agents[id].version = 1
                       /\ AuditCount(r.history, id) = 0
        /\ \A patch \in AgentPatches :
               LET r == UpdateAgentTxn(uid, id, patch)
               IN  ( /\ r.result = "ok"
                     /\ "modified_by" \in DOMAIN patch
                     /\ Cardinality(TrackedChanged(id, patch)) = 1 ) =>
                       /\ Len(r.history) = Len(agent_config_history) + 1
                       /\ r.history[Len(r.history)].agent_id = id
                       /\ r.history[Len(r.history)].changes =
                              [c \in TrackedChanged(id, patch) |->
                                  [old |-> agents[id][c], new |-> patch[c]]]
                       /\ r.agents[id].version = agents[id].version + 1

C9_DeactivationImmediate ==
    [][ \A p \in Users :
            (~Deactivated(p) /\ Deactivated(p)') =>
                /\ \A id \in AgentIds : GetAgent(p, id)'.result = "notfound"
                /\ authUser' = p =>
                       \A profileData \in fetchProfile(p)' :
                           setProfileIfFetched(profileData, authProfile') = NoProfile
      ]_vars

\* C10: the role and the soft-delete timestamp of a principal change only by
\* the act of an active admin of that principal's tenant other than the
\* principal itself.
C10_RoleAndLifecycleOnlyByAdmin ==
    \A uid \in Users : \A target \in Users :
        LET Allowed == uid # target
                       /\ ActiveAdminOf(uid, profiles[target].organization_id)
            Touched(p) == \/ p[target].role # profiles[target].role
                          \/ p[target].deleted_at # profiles[target].deleted_at
        IN  /\ \A now \in Times :
                   Touched(soft_delete_user(uid, target, now).profiles) => Allowed
            /\ Touched(restore_user(uid, target).profiles) => Allowed
            /\ \A patch \in ProfilePatches :
                   Touched(UpdateProfileTxn(uid, target, patch).profiles) => Allowed

\* C11: soft_delete_user on an active principal sets the timestamp to the
\* current time and returns true; on a deactivated principal it returns false
\* and changes nothing; restore_user clears the timestamp and returns true
\* only on a deactivated principal and otherwise returns false and changes
\* nothing; both return false for an unknown principal; is_user_active is
\* true exactly for an existing principal with a null timestamp.
C11_DeactivateReactivateContract ==
    \A uid \in Users : \A target \in Users \cup {"nobody"} : \A now \in Times :
        LET d == soft_delete_user(uid, target, now)
            r == restore_user(uid, target)
            Same == [result |-> FALSE, profiles |-> profiles]
        IN  /\ is_user_active(target)
                <=> (target \in Users /\ profiles[target].deleted_at = NullInt)
            /\ target \notin Users => (d = Same /\ r = Same)
            /\ (target \in Users /\ profiles[target].deleted_at = NullInt) =>
                   /\ d.result = TRUE
                   /\ d.profiles[target].deleted_at = now
                   /\ \A u \in Users \ {target} : d.profiles[u] = profiles[u]
                   /\ r = Same
            /\ (target \in Users /\ profiles[target].deleted_at # NullInt) =>
                   /\ d = Same
                   /\ r.result = TRUE
                   /\ r.profiles[target].deleted_at = NullInt
                   /\ \A u \in Users \ {target} : r.profiles[u] = profiles[u]

\* C11 witness: a principal that was deactivated at one time and on whom a
\* second soft_delete_user at another time returns false.
C11_Witness ==
    \E target \in Users : \E now \in Times :
        /\ profiles[target].deleted_at \in Times \ {now}
        /\ soft_delete_user("u1", target, now).result = FALSE
        /\ restore_user("u1", target).result = TRUE
        /\ ~is_user_active(target)
        /\ steps > 0

\* The audit records of agent id, in the order they were committed.
RecordsOf(h, id) ==
    LET Mine(rec) == rec.agent_id = id IN SelectSeq(h, Mine)

IsPrefix(s, t) == Len(s) <= Len(t) /\ SubSeq(t, 1, Len(s)) = s

\* C12: no step of any caller modifies or deletes an audit record of an
\* agent that exists before and after the step: the records of the agent
\* before the step are, unchanged and in the same order, the first records of
\* the agent after the step.
C12_AuditRecordsImmutable ==
    [][\A id \in AgentIds :
          (id \in DOMAIN agents /\ id \in DOMAIN agents') =>
              IsPrefix(RecordsOf(agent_config_history, id),
                       RecordsOf(agent_config_history', id))]_vars

\* C12 witness: an agent has an audit record, and the admin of its tenant,
\* who can read the record, is refused both its update and its deletion.
C12_Witness ==
    \E i \in DOMAIN agent_config_history :
        /\ agent_config_history[i].agent_id \in DOMAIN agents
        /\ GetAgentHistory("u1", agent_config_history[i].agent_id) # << >>
        /\ \A patch \in HistoryPatches :
               UpdateHistoryTxn("u1", i, patch).result = "denied"
        /\ DeleteHistoryTxn("u1", i).result = "denied"

\* C13: every step that adds audit records adds exactly one, and it adds it
\* for an agent whose row the same step changed: no caller creates an audit
\* record directly.
C13_AuditOnlyFromMutation ==
    [][Len(agent_config_history') > Len(agent_config_history) =>
          /\ Len(agent_config_history') = Len(agent_config_history) + 1
          /\ LET rec == agent_config_history'[Len(agent_config_history')]
             IN  /\ rec.agent_id \in DOMAIN agents
                 /\ agents'[rec.agent_id] # agents[rec.agent_id]]_vars

\* C14: the membership list of an active admin is exactly the principals of
\* the admin's tenant (and so none of another tenant); the membership list of
\* an active non-admin is exactly the caller's own record.
C14_MembershipListByRole ==
    \A uid \in Users :
        /\ ActiveAdminOf(uid, profiles[uid].organization_id) =>
               ListProfiles(uid) =
                   {p \in Users : SqlEq(profiles[p].organization_id,
                                        profiles[uid].organization_id)}
        /\ (~Deactivated(uid) /\ profiles[uid].role # "admin") =>
               ListProfiles(uid) = {uid}

\* A step in which the channel hands its next payload to the callback.
DeliverStep ==
    /\ channel = "SUBSCRIBED" /\ channel' = "SUBSCRIBED"
    /\ queue # << >> /\ queue' = Tail(queue)

Occurrences(view, id) == Cardinality({k \in DOMAIN view : view[k].id = id})

\* The rule table: the payloads for which the view is to get an Upsert.
IsUpsert(only, e) ==
    e.eventType \in {"INSERT", "UPDATE"} /\ (e.row.is_active \/ ~only)

\* C15: when a hook with activeOnly = true holds an agent in its view and
\* handles the UPDATE payload that carries is_active = false for it, the
\* view afterwards does not contain the agent and is otherwise the view from
\* before, entry by entry.
C15_DeactivationRemovesFromActiveView ==
    [][(/\ DeliverStep
        /\ activeOnly
        /\ Head(queue).eventType = "UPDATE"
        /\ ~Head(queue).row.is_active
        /\ InView(viewAgents, Head(queue).id)) =>
           /\ ~InView(viewAgents', Head(queue).id)
           /\ viewAgents' = Without(viewAgents, Head(queue).id)]_vars

\* C15 witness: a hook with activeOnly = true has handled the deactivation
\* of agent a1, which the list call had put into its view; a1 is gone from
\* the view and another agent is still in it.
C15_Witness ==
    /\ activeOnly
    /\ channel = "SUBSCRIBED"
    /\ logged.eventType = "UPDATE"
    /\ logged.id = "a1"
    /\ ~logged.row.is_active
    /\ ~InView(viewAgents, "a1")
    /\ InView(viewAgents, "a2")
    /\ queue = << >>

\* C16: whenever the callback handles a payload, an Upsert case of the rule
\* table leaves the agent in the view exactly once, with the row of the
\* payload and the other entries untouched, whether or not it was in the
\* view before; a DELETE payload removes the agent from the view.
C16_ReconciliationRuleTable ==
    [][DeliverStep =>
          LET e == Head(queue)
          IN  IF IsUpsert(activeOnly, e)
              THEN /\ Occurrences(viewAgents', e.id) = 1
                   /\ \A k \in DOMAIN viewAgents' :
                          viewAgents'[k].id = e.id => viewAgents'[k].row = e.row
                   /\ Without(viewAgents', e.id) = Without(viewAgents, e.id)
              ELSE e.eventType = "DELETE" =>
                       viewAgents' = Without(viewAgents, e.id)]_vars

\* C17: an accepted UPDATE of agents that leaves every tracked field of
\* every agent as it was sends nothing to a subscribed hook.
C17_NoEventWithoutTrackedChange ==
    [][(/\ channel = "SUBSCRIBED"
        /\ steps' = steps + 1
        /\ DOMAIN agents' = DOMAIN agents
        /\ \A id \in DOMAIN agents :
               DOMAIN changes_json(agents[id], agents'[id]) = {}) =>
           queue' = queue]_vars

\* C18: the callback handles a payload only when every rejoin of the
\* channel after a lost connection has been followed by a list call.
C18_ListCallAfterReconnect ==
    [][DeliverStep => resynced]_vars

\* Two answered requests whose transactions overlapped in time.
Concurrent(x, y) == x.started < y.finished /\ y.started < x.finished

\* C19 as stated: whenever two concurrent updates of the same agent have
\* both been accepted, the version of the agent is 2 higher and the agent
\* has exactly two new audit records.
C19_TwoAcceptedGiveTwoRecords ==
    \A s, t \in Sessions :
        (/\ s # t
         /\ steps = 2
         /\ inflight[s].state = "done" /\ inflight[t].state = "done"
         /\ inflight[s].result = "ok" /\ inflight[t].result = "ok"
         /\ inflight[s].id = inflight[t].id
         /\ Concurrent(inflight[s], inflight[t])) =>
            /\ agents[inflight[s].id].version = DefaultVersion + 2
            /\ AuditCount(agent_config_history, inflight[s].id) = 2

\* C19: when an accepted update commits, also one that began before the
\* previous update of the same agent committed, it is compared with the row
\* committed just before it. If it changes a tracked field of that row, it
\* adds one audit record whose previous_config and old values are that row,
\* and the version goes up by one, so that the version stays DefaultVersion
\* plus the number of records; if it changes none (the earlier update made
\* the same change), it adds no record and leaves the version.
C19_ConcurrentUpdatesSerialize ==
    [][\A s \in Sessions :
          (/\ Begun(s)
           /\ inflight'[s].state = "done"
           /\ inflight'[s].result = "ok") =>
              LET id == inflight[s].id
                  before == agents[id]
                  after == ApplyPatch(before, inflight[s].patch)
              IN  IF DOMAIN changes_json(before, after) # {}
                  THEN /\ Len(agent_config_history')
                             = Len(agent_config_history) + 1
                       /\ LET rec == agent_config_history'[
                                         Len(agent_config_history')]
                          IN  /\ rec.agent_id = id
                              /\ rec.previous_config = prev_config(before)
                              /\ \A c \in DOMAIN rec.changes :
                                     rec.changes[c].old
                                         = DiffValue(c, before[c])
                       /\ agents'[id].version = before.version + 1
                       /\ AuditCount(agent_config_history', id)
                              = agents'[id].version - DefaultVersion
                  ELSE /\ agent_config_history' = agent_config_history
                       /\ agents'[id].version = before.version]_vars

\* C19 witness: two updates of a1 ran concurrently (the one that committed
\* second had begun first), both were accepted, the version is 2 higher, and
\* the second record's previous_config is the row the first one committed,
\* not the row from before it.
C19_Witness ==
    /\ Len(agent_config_history) = 2
    /\ agent_config_history[1].agent_id = "a1"
    /\ agent_config_history[2].agent_id = "a1"
    /\ agent_config_history[1].changed_at > agent_config_history[2].changed_at
    /\ agents["a1"].version = DefaultVersion + 2
    /\ agent_config_history[2].previous_config
           # agent_config_history[1].previous_config
    /\ \A s \in Sessions :
           inflight[s].state = "done" /\ inflight[s].result = "ok"
    /\ Concurrent(inflight["c1"], inflight["c2"])

\* C20: the audit records of one agent, in the order their updates
\* committed, have strictly increasing timestamps.
C20_TimestampOrderIsCommitOrder ==
    \A i, j \in DOMAIN agent_config_history :
        (i < j /\ agent_config_history[i].agent_id
                     = agent_config_history[j].agent_id) =>
            agent_config_history[i].changed_at < agent_config_history[j].changed_at

\* g is f without the keys in gone, with the other values as they were.
IsWithout(g, f, gone) ==
    /\ DOMAIN g = DOMAIN f \ gone
    /\ \A x \in DOMAIN g : g[x] = f[x]

\* C21: a step that deletes an agent removes, together, the agent, all the
\* sub-agents under it and all knowledge records attached to it or to those
\* sub-agents, and leaves every other agent, sub-agent and knowledge record
\* as it was; a step that deletes a sub-agent removes that sub-agent and the
\* knowledge records attached to it and nothing else.
C21_DeleteCascades ==
    [][/\ \A id \in HAgentIds :
             (id \in DOMAIN agents /\ id \notin DOMAIN agents') =>
                 LET subs == {x \in DOMAIN sub_agents :
                                 sub_agents[x].parent_agent_id = id}
                     kbs == {k \in DOMAIN knowledge_base :
                                \/ knowledge_base[k].agent_id = id
                                \/ knowledge_base[k].sub_agent_id \in subs}
                 IN  /\ IsWithout(agents', agents, {id})
                     /\ IsWithout(sub_agents', sub_agents, subs)
                     /\ IsWithout(knowledge_base', knowledge_base, kbs)
       /\ \A sid \in HSubAgentIds :
             (/\ sid \in DOMAIN sub_agents /\ sid \notin DOMAIN sub_agents'
              /\ DOMAIN agents' = DOMAIN agents) =>
                 LET kbs == {k \in DOMAIN knowledge_base :
                                knowledge_base[k].sub_agent_id = sid}
                 IN  /\ agents' = agents
                     /\ IsWithout(sub_agents', sub_agents, {sid})
                     /\ IsWithout(knowledge_base', knowledge_base, kbs)]_vars

\* C21 witness: agent a1 has been deleted with its sub-agents s1 and s2 and
\* the knowledge records k1, k2 and k3; agent a2 and its knowledge record k4
\* are still there.
C21_Witness ==
    /\ steps = 1
    /\ DOMAIN agents = {"a2"}
    /\ DOMAIN sub_agents = {}
    /\ DOMAIN knowledge_base = {"k4"}
    /\ knowledge_base["k4"].agent_id = "a2"

\* C22: no two agents of one tenant and no two sub-agents of one parent
\* share a slug; a create whose slug is taken in its scope is never accepted
\* and adds nothing, and is answered "conflict" when the caller may create
\* the row and the row is within bounds; a create whose slug is taken only
\* in another tenant, or under another parent, is accepted in that case.
C22_SlugUniqueInScope ==
    /\ \A a, b \in DOMAIN agents :
          (a # b /\ agents[a].organization_id = agents[b].organization_id) =>
              agents[a].slug # agents[b].slug
    /\ \A x, y \in DOMAIN sub_agents :
          (x # y /\ sub_agents[x].parent_agent_id = sub_agents[y].parent_agent_id) =>
              sub_agents[x].slug # sub_agents[y].slug
    /\ \A uid \in Users : \A id \in HAgentIds \ DOMAIN agents : \A row \in HAgentRows :
          LET r == InsertAgentTxn(uid, id, row)
              taken == \E o \in DOMAIN agents :
                          /\ agents[o].organization_id = row.organization_id
                          /\ agents[o].slug = row.slug
              allowed == /\ agents_insert_admin(uid, row)
                         /\ TemperatureCheck(row) /\ MaxTokensCheck(row)
          IN  /\ taken => (r.result # "ok" /\ r.agents = agents)
              /\ (taken /\ allowed) => r.result = "conflict"
              /\ (~taken /\ allowed) =>
                     (r.result = "ok" /\ r.agents = agents @@ (id :> row))
    /\ \A uid \in Users : \A id \in HSubAgentIds \ DOMAIN sub_agents :
       \A row \in HSubAgentRows :
          LET r == InsertSubAgentTxn(uid, id, row)
              taken == \E o \in DOMAIN sub_agents :
                          /\ sub_agents[o].parent_agent_id = row.parent_agent_id
                          /\ sub_agents[o].slug = row.slug
              allowed == /\ sub_agents_insert_admin(uid, row)
                         /\ TemperatureCheck(row) /\ MaxTokensCheck(row)
                         /\ row.parent_agent_id \in DOMAIN agents
          IN  /\ taken => (r.result # "ok" /\ r.sub_agents = sub_agents)
              /\ (taken /\ allowed) => r.result = "conflict"
              /\ (~taken /\ allowed) =>
                     (r.result = "ok" /\ r.sub_agents = sub_agents @@ (id :> row))

\* C22 witness: the slug "copy" is in use in both tenants and the slug "sub"
\* under both parents; a further agent "copy" in T1 and a further sub-agent
\* "sub" under a1 are answered "conflict".
C22_Witness ==
    /\ \E a, b \in DOMAIN agents :
          /\ agents[a].slug = "copy" /\ agents[b].slug = "copy"
          /\ agents[a].organization_id = "T1" /\ agents[b].organization_id = "T2"
    /\ \E x, y \in DOMAIN sub_agents :
          /\ sub_agents[x].slug = "sub" /\ sub_agents[y].slug = "sub"
          /\ sub_agents[x].parent_agent_id = "a1"
          /\ sub_agents[y].parent_agent_id = "a2"
    /\ InsertAgentTxn("u1", "a9",
           AgentRow("T1", "copy", DefaultVersion, DefaultTemperature)).result
          = "conflict"
    /\ InsertSubAgentTxn("u1", "s9", SubAgentRow("a1", "T1")).result = "conflict"

InBounds(row) ==
    /\ row.temperature >= TempMin /\ row.temperature <= TempMax
    /\ row.max_tokens > 0 /\ row.max_tokens <= MaxTokensMax

\* C23: every agent and every sub-agent is within the bounds of temperature
\* and max_tokens; a create or an update whose row would be out of bounds is
\* never accepted and leaves the agents, the sub-agents and the audit
\* records as they were (the record the trigger wrote is gone with the
\* statement); it is answered "invalid" when the caller may write the row.
C23_OutOfBoundsRejected ==
    /\ \A a \in DOMAIN agents : InBounds(agents[a])
    /\ \A x \in DOMAIN sub_agents : InBounds(sub_agents[x])
    /\ \A uid \in Users : \A id \in HAgentIds \ DOMAIN agents : \A row \in HAgentRows :
          LET r == InsertAgentTxn(uid, id, row)
          IN  ~InBounds(row) =>
                 /\ r.result # "ok" /\ r.agents = agents
                 /\ r.history = agent_config_history
                 /\ agents_insert_admin(uid, row) => r.result = "invalid"
    /\ \A uid \in Users : \A id \in DOMAIN agents : \A patch \in HAgentPatches :
          LET r == UpdateAgentTxn(uid, id, patch)
              after == ApplyPatch(agents[id], patch)
          IN  ~InBounds(after) =>
                 /\ r.result # "ok" /\ r.agents = agents
                 /\ r.history = agent_config_history
                 /\ (/\ agents_select(uid, agents[id])
                     /\ agents_update_admin(uid, agents[id])
                     /\ agents_update_admin(uid, after)) => r.result = "invalid"
    /\ \A uid \in Users : \A id \in HSubAgentIds \ DOMAIN sub_agents :
       \A row \in HSubAgentRows :
          LET r == InsertSubAgentTxn(uid, id, row)
          IN  ~InBounds(row) =>
                 /\ r.result # "ok" /\ r.sub_agents = sub_agents
                 /\ sub_agents_insert_admin(uid, row) => r.result = "invalid"
    /\ \A uid \in Users : \A id \in DOMAIN sub_agents : \A patch \in HSubAgentPatches :
          LET r == UpdateSubAgentTxn(uid, id, patch)
              after == ApplyPatch(sub_agents[id], patch)
          IN  ~InBounds(after) =>
                 /\ r.result # "ok" /\ r.sub_agents = sub_agents
                 /\ (/\ sub_agents_select_org(uid, sub_agents[id])
                     /\ sub_agents_update_admin(uid, sub_agents[id])
                     /\ sub_agents_update_admin(uid, after)) => r.result = "invalid"

\* C23 witness: after an accepted update of a1, the admin's update of a1 to
\* max_tokens above the ceiling, for which the trigger writes an audit
\* record (the temperature changes as well), is answered "invalid".
C23_Witness ==
    /\ steps > 0
    /\ "a1" \in DOMAIN agents
    /\ agent_config_history # << >>
    /\ \E patch \in HAgentPatches :
          LET after == ApplyPatch(agents["a1"], patch)
          IN  /\ ~InBounds(after)
              /\ track_agent_config_change("a1", agents["a1"], after).inserted
                     # << >>
              /\ UpdateAgentTxn("u1", "a1", patch).result = "invalid"
              /\ UpdateAgentTxn("u1", "a1", patch).history = agent_config_history

C25_DiffAndSnapshotFaithful ==
    \A uid \in Users : \A id \in DOMAIN agents : \A patch \in AgentPatches :
        LET r == UpdateAgentTxn(uid, id, patch)
            before == Len(agent_config_history)
        IN  (r.result = "ok" /\ Len(r.history) > before) =>
                LET rec == r.history[Len(r.history)]
                IN  /\ rec.agent_id = id
                    /\ DOMAIN rec.changes =
                           {c \in TrackedFields : agents[id][c] # r.agents[id][c]}
                    /\ \A c \in DOMAIN rec.changes :
                           rec.changes[c].old # rec.changes[c].new
                    /\ \A c \in TrackedFields :
                           rec.previous_config[c] = agents[id][c]

\* C26: the audit record written by an accepted update names the principal
\* who made the update as its acting principal, and the agent's modified_by
\* after an accepted update that changes the agent is that principal.
C26_AttributedToActingPrincipal ==
    \A uid \in Users : \A id \in DOMAIN agents : \A patch \in AgentPatches :
        LET r == UpdateAgentTxn(uid, id, patch)
        IN  r.result = "ok" =>
                /\ Len(r.history) > Len(agent_config_history) =>
                       r.history[Len(r.history)].changed_by = uid
                /\ r.agents[id] # agents[id] => r.agents[id].modified_by = uid

\* C27: an accepted update of a sub-agent that changes a tracked field and
\* carries its modifying principal adds exactly one audit record that
\* references the sub-agent and raises the sub-agent's version by one.
C27_SubAgentVersionAndAudit ==
    \A uid \in Users : \A id \in DOMAIN sub_agents : \A patch \in HSubAgentPatches :
        LET r == UpdateSubAgentTxn(uid, id, patch)
            tracked == {c \in DOMAIN patch \cap TrackedFields :
                           patch[c] # sub_agents[id][c]}
        IN  (r.result = "ok" /\ tracked # {} /\ "modified_by" \in DOMAIN patch) =>
                /\ AuditCount(r.history, id)
                       = AuditCount(agent_config_history, id) + 1
                /\ "version" \in DOMAIN r.sub_agents[id]
                /\ "version" \in DOMAIN sub_agents[id]
                /\ r.sub_agents[id].version = sub_agents[id].version + 1

\* C28: every sub-agent carries the tenant of its parent agent.
C28_SubAgentInParentTenant ==
    \A id \in DOMAIN sub_agents :
        LET parent == sub_agents[id].parent_agent_id
        IN  /\ parent \in DOMAIN agents
            /\ sub_agents[id].organization_id = agents[parent].organization_id

\* The number of entries of the view that carry the identifier id.
EntriesOf(id) == Cardinality({k \in DOMAIN viewAgents : viewAgents[k].id = id})

\* C29: when the list call has answered with the agents, no rejoin of the
\* channel lacks its list call, and every event sent to the hook has been
\* handled, the view holds exactly one entry for each agent of the
\* subscriber's tenant that passes the activeOnly filter, with the row as
\* committed, and no other entry.
C29_ViewConvergesToTenantAgents ==
    (channel = "SUBSCRIBED" /\ ~isLoading /\ error = NULL /\ resynced
        /\ queue = << >>) =>
        /\ \A id \in DOMAIN agents :
               (/\ SqlEq(agents[id].organization_id, SubscriberOrg)
                /\ (activeOnly => agents[id].is_active)) =>
                   /\ EntriesOf(id) = 1
                   /\ \A k \in DOMAIN viewAgents :
                          viewAgents[k].id = id => viewAgents[k].row = agents[id]
        /\ \A k \in DOMAIN viewAgents :
               /\ viewAgents[k].id \in DOMAIN agents
               /\ SqlEq(agents[viewAgents[k].id].organization_id, SubscriberOrg)
               /\ (activeOnly => agents[viewAgents[k].id].is_active)

\* C30: the view of a subscriber with activeOnly set holds, in every state,
\* only active agents of the subscriber's tenant.
C30_ActiveOnlyViewHoldsActiveTenantAgents ==
    activeOnly =>
        \A k \in DOMAIN viewAgents :
            /\ viewAgents[k].row.is_active
            /\ SqlEq(viewAgents[k].row.organization_id, SubscriberOrg)

====
